---- MODULE Spec2Model ----
(***************************************************************************)
(* The two HttpExample handlers of the repository.                         *)
(*   variant "A" : function_app.py       (greets and writes a ToDo row)    *)
(*   variant "B" : function_app_copy.py  (greets only)                     *)
(* The hosting runtime runs invocations side by side; each invocation is   *)
(* a worker that walks through the handler statement by statement.         *)
(***************************************************************************)
EXTENDS Integers, Sequences, FiniteSets, TLC

VARIABLES variant, req, pc, name, resp, toDoItems, steps, sink, issued, started, okA

vars == <<variant, req, pc, name, resp, toDoItems, steps, sink, issued, started, okA>>

(* Total number of invocations the host starts in one run. *)
MaxInvocations == 2

(* Invocations the host may have in flight at the same time. *)
Workers == {"w1", "w2"}

Variants == {"A", "B"}

-----------------------------------------------------------------------------
(* Python values, tagged with their type.                                  *)

None == [type |-> "NoneType"]

PyStr(s) == [type |-> "str", str |-> s]

PyInt(n) == [type |-> "int", int |-> n]

PyDict(f) == [type |-> "dict", items |-> f]

PyList(n) == [type |-> "list", len |-> n]

(* What get_json raises on a body that is not JSON. *)
ValueError == [type |-> "ValueError"]

(* Truthy with an `is not None` test in place of the truth value. *)
TruthyIsNotNone(v) == v.type # "NoneType"

(* The truth value Python gives a value in `if name` / `if not name`. *)
Truthy(v) ==
    CASE v.type = "NoneType" -> FALSE
      [] v.type = "str" -> v.str # ""
      [] v.type = "int" -> v.int # 0
      [] v.type = "dict" -> DOMAIN v.items # {}
      [] v.type = "list" -> v.len # 0

(* The text an f-string puts in place of {name}. *)
Format(v) ==
    CASE v.type = "NoneType" -> "None"
      [] v.type = "str" -> v.str
      [] v.type = "int" -> ToString(v.int)

(* d.get(k) of a dict: the value under k, None when k is missing. *)
DictGet(d, k) == IF k \in DOMAIN d.items THEN d.items[k] ELSE None

(* Only a dict has the method .get; on anything else the call raises       *)
(* AttributeError, which neither handler catches.                          *)
HasGet(v) == v.type = "dict"

-----------------------------------------------------------------------------
(* Requests.                                                               *)

(* req.params: the query string as a mapping. *)
QueryParams == {<<>>, [name |-> ""], [name |-> "Ada"]}

(* Raw request bodies, as the bytes on the wire. *)
Bodies == {"", "not-json", "{}", "{\"name\": \"\"}", "{\"name\": \"Ada\"}",
           "{\"name\": \"Bob\"}", "{\"name\": 7}", "{\"name\": 0}",
           "{\"name\": null}", "[\"Ada\"]", "\"Ada\"", "null"}

Requests == [params : QueryParams, body : Bodies]

NoRequest == [params |-> <<>>, body |-> "", absent |-> TRUE]

(* req.params.get('name') *)
ParamsGet(r, k) == IF k \in DOMAIN r.params THEN PyStr(r.params[k]) ELSE None

(* req.get_json(): json.loads of the body; ValueError when it is not JSON. *)
GetJson(r) ==
    CASE r.body = "" -> ValueError
      [] r.body = "not-json" -> ValueError
      [] r.body = "{}" -> PyDict(<<>>)
      [] r.body = "{\"name\": \"\"}" -> PyDict([name |-> PyStr("")])
      [] r.body = "{\"name\": \"Ada\"}" -> PyDict([name |-> PyStr("Ada")])
      [] r.body = "{\"name\": \"Bob\"}" -> PyDict([name |-> PyStr("Bob")])
      [] r.body = "{\"name\": 7}" -> PyDict([name |-> PyInt(7)])
      [] r.body = "{\"name\": 0}" -> PyDict([name |-> PyInt(0)])
      [] r.body = "{\"name\": null}" -> PyDict([name |-> None])
      [] r.body = "[\"Ada\"]" -> PyList(1)
      [] r.body = "\"Ada\"" -> PyStr("Ada")
      [] r.body = "null" -> None

-----------------------------------------------------------------------------
(* Responses and rows.                                                     *)

NoResponse == [status |-> 0, body |-> ""]

HttpResponse(body, status) == [status |-> status, body |-> body]

HelloSavedBody(n) ==
    "Hello, " \o Format(n)
        \o ". This HTTP triggered function executed successfully and was saved to SQL."

PleasePassBody == "Please pass a name in the query string or in the request body."

HelloBody(n) ==
    "Hello, " \o Format(n) \o ". This HTTP triggered function executed successfully."

PromptBody ==
    "This HTTP triggered function executed successfully. Pass a name in the query string or in the request body for a personalized response."

(* The identifiers uuid4 can draw. *)
Uuids == 1..MaxInvocations

(* str(uuid): the text form of an identifier. *)
UuidStr(u) == "uuid-" \o ToString(u)

(* func.SqlRow({...}) *)
SqlRow(u, n) == [Id |-> UuidStr(u), title |-> n, completed |-> FALSE, url |-> ""]

-----------------------------------------------------------------------------
Init ==
    /\ variant = [w \in Workers |-> "A"]
    /\ req = [w \in Workers |-> NoRequest]
    /\ pc = [w \in Workers |-> "idle"]
    /\ name = [w \in Workers |-> None]
    /\ resp = [w \in Workers |-> NoResponse]
    /\ toDoItems = [w \in Workers |-> <<>>]
    /\ steps = [w \in Workers |-> <<>>]
    /\ sink = <<>>
    /\ issued = {}
    /\ started = 0
    /\ okA = 0

(* The host routes a request to one of the two handlers. *)
Receive(w, v, r) ==
    /\ pc[w] = "idle"
    /\ started < MaxInvocations
    /\ started' = started + 1
    /\ variant' = [variant EXCEPT ![w] = v]
    /\ req' = [req EXCEPT ![w] = r]
    /\ name' = [name EXCEPT ![w] = None]
    /\ resp' = [resp EXCEPT ![w] = NoResponse]
    /\ toDoItems' = [toDoItems EXCEPT ![w] = <<>>]
    /\ steps' = [steps EXCEPT ![w] = <<>>]
    /\ pc' = [pc EXCEPT ![w] = "log"]
    /\ UNCHANGED <<sink, issued, okA>>

(* LogA without the logging call. *)
LogA_Silent(w) ==
    /\ pc[w] = "log" /\ variant[w] = "A"
    /\ pc' = [pc EXCEPT ![w] = "params"]
    /\ UNCHANGED <<variant, req, name, resp, toDoItems, steps, sink, issued, started, okA>>

(* logging.info('Python HTTP trigger function processed a request.') *)
LogA(w) ==
    /\ pc[w] = "log" /\ variant[w] = "A"
    /\ steps' = [steps EXCEPT ![w] = Append(@, "log")]
    /\ pc' = [pc EXCEPT ![w] = "params"]
    /\ UNCHANGED <<variant, req, name, resp, toDoItems, sink, issued, started, okA>>

LogB(w) ==
    /\ pc[w] = "log" /\ variant[w] = "B"
    /\ steps' = [steps EXCEPT ![w] = Append(@, "log")]
    /\ pc' = [pc EXCEPT ![w] = "params"]
    /\ UNCHANGED <<variant, req, name, resp, toDoItems, sink, issued, started, okA>>

(* name = req.params.get('name'); if not name: ... *)
GetParamA(w) ==
    /\ pc[w] = "params" /\ variant[w] = "A"
    /\ LET n == ParamsGet(req[w], "name") IN
        /\ name' = [name EXCEPT ![w] = n]
        /\ pc' = [pc EXCEPT ![w] = IF ~Truthy(n) THEN "json" ELSE "branch"]
    /\ steps' = [steps EXCEPT ![w] = Append(@, "params")]
    /\ UNCHANGED <<variant, req, resp, toDoItems, sink, issued, started, okA>>

(* GetParamB reading the body even when the query gave a name. *)
GetParamB_AlwaysBody(w) ==
    /\ pc[w] = "params" /\ variant[w] = "B"
    /\ name' = [name EXCEPT ![w] = ParamsGet(req[w], "name")]
    /\ pc' = [pc EXCEPT ![w] = "json"]
    /\ steps' = [steps EXCEPT ![w] = Append(@, "params")]
    /\ UNCHANGED <<variant, req, resp, toDoItems, sink, issued, started, okA>>

GetParamB(w) ==
    /\ pc[w] = "params" /\ variant[w] = "B"
    /\ LET n == ParamsGet(req[w], "name") IN
        /\ name' = [name EXCEPT ![w] = n]
        /\ pc' = [pc EXCEPT ![w] = IF ~Truthy(n) THEN "json" ELSE "branch"]
    /\ steps' = [steps EXCEPT ![w] = Append(@, "params")]
    /\ UNCHANGED <<variant, req, resp, toDoItems, sink, issued, started, okA>>

(* ParseBodyA falling back to None instead of {} on a parse failure. *)
ParseBodyA_NoneFallback(w) ==
    /\ pc[w] = "json" /\ variant[w] = "A"
    /\ LET parsed == GetJson(req[w])
           req_body == IF parsed = ValueError THEN None ELSE parsed
       IN  IF HasGet(req_body)
           THEN /\ name' = [name EXCEPT ![w] = DictGet(req_body, "name")]
                /\ pc' = [pc EXCEPT ![w] = "branch"]
           ELSE /\ name' = name
                /\ pc' = [pc EXCEPT ![w] = "error"]
    /\ steps' = [steps EXCEPT ![w] = Append(@, "json")]
    /\ UNCHANGED <<variant, req, resp, toDoItems, sink, issued, started, okA>>

(* try: req_body = req.get_json()                                          *)
(* except ValueError: req_body = {}                                        *)
(* name = req_body.get('name')                                             *)
ParseBodyA(w) ==
    /\ pc[w] = "json" /\ variant[w] = "A"
    /\ LET parsed == GetJson(req[w])
           req_body == IF parsed = ValueError THEN PyDict(<<>>) ELSE parsed
       IN  IF HasGet(req_body)
           THEN /\ name' = [name EXCEPT ![w] = DictGet(req_body, "name")]
                /\ pc' = [pc EXCEPT ![w] = "branch"]
           ELSE /\ name' = name
                /\ pc' = [pc EXCEPT ![w] = "error"]
    /\ steps' = [steps EXCEPT ![w] = Append(@, "json")]
    /\ UNCHANGED <<variant, req, resp, toDoItems, sink, issued, started, okA>>

(* ParseBodyB without the except clause: the parse failure propagates. *)
ParseBodyB_Uncaught(w) ==
    /\ pc[w] = "json" /\ variant[w] = "B"
    /\ LET parsed == GetJson(req[w])
       IN  IF parsed # ValueError /\ HasGet(parsed)
           THEN /\ name' = [name EXCEPT ![w] = DictGet(parsed, "name")]
                /\ pc' = [pc EXCEPT ![w] = "branch"]
           ELSE /\ name' = name
                /\ pc' = [pc EXCEPT ![w] = "error"]
    /\ steps' = [steps EXCEPT ![w] = Append(@, "json")]
    /\ UNCHANGED <<variant, req, resp, toDoItems, sink, issued, started, okA>>

(* try: req_body = req.get_json()                                          *)
(* except ValueError: pass                                                 *)
(* else: name = req_body.get('name')                                       *)
ParseBodyB(w) ==
    /\ pc[w] = "json" /\ variant[w] = "B"
    /\ LET parsed == GetJson(req[w])
       IN  IF parsed = ValueError
           THEN /\ name' = name
                /\ pc' = [pc EXCEPT ![w] = "branch"]
           ELSE IF HasGet(parsed)
           THEN /\ name' = [name EXCEPT ![w] = DictGet(parsed, "name")]
                /\ pc' = [pc EXCEPT ![w] = "branch"]
           ELSE /\ name' = name
                /\ pc' = [pc EXCEPT ![w] = "error"]
    /\ steps' = [steps EXCEPT ![w] = Append(@, "json")]
    /\ UNCHANGED <<variant, req, resp, toDoItems, sink, issued, started, okA>>

(* SetRecordA outside the `if name` test. *)
SetRecordA_Unconditional(w) ==
    /\ pc[w] = "branch" /\ variant[w] = "A"
    /\ \E u \in Uuids \ issued :
        /\ issued' = issued \cup {u}
        /\ toDoItems' = [toDoItems EXCEPT ![w] = <<SqlRow(u, name[w])>>]
        /\ sink' = Append(sink, SqlRow(u, name[w]))
    /\ steps' = [steps EXCEPT ![w] = Append(@, "set")]
    /\ pc' = [pc EXCEPT ![w] = "return"]
    /\ UNCHANGED <<variant, req, name, resp, started, okA>>

(* SetRecordA skipping the row when the sink already holds the title. *)
SetRecordA_Dedup(w) ==
    /\ pc[w] = "branch" /\ variant[w] = "A"
    /\ Truthy(name[w])
    /\ \E u \in Uuids \ issued :
        /\ issued' = issued \cup {u}
        /\ toDoItems' = [toDoItems EXCEPT ![w] = <<SqlRow(u, name[w])>>]
        /\ sink' = IF \E i \in 1..Len(sink) : sink[i].title = name[w]
                   THEN sink
                   ELSE Append(sink, SqlRow(u, name[w]))
    /\ steps' = [steps EXCEPT ![w] = Append(@, "set")]
    /\ pc' = [pc EXCEPT ![w] = "return"]
    /\ UNCHANGED <<variant, req, name, resp, started, okA>>

(* if name: toDoItems.set(func.SqlRow({"Id": str(uuid.uuid4()), ...}))     *)
SetRecordA(w) ==
    /\ pc[w] = "branch" /\ variant[w] = "A"
    /\ Truthy(name[w])
    /\ \E u \in Uuids \ issued :
        /\ issued' = issued \cup {u}
        /\ toDoItems' = [toDoItems EXCEPT ![w] = <<SqlRow(u, name[w])>>]
        /\ sink' = Append(sink, SqlRow(u, name[w]))
    /\ steps' = [steps EXCEPT ![w] = Append(@, "set")]
    /\ pc' = [pc EXCEPT ![w] = "return"]
    /\ UNCHANGED <<variant, req, name, resp, started, okA>>

(* ReturnSavedA with the greeting text of function_app_copy.py. *)
ReturnSavedA_CopyText(w) ==
    /\ pc[w] = "return" /\ variant[w] = "A"
    /\ resp' = [resp EXCEPT ![w] = HttpResponse(HelloBody(name[w]), 200)]
    /\ okA' = okA + 1
    /\ steps' = [steps EXCEPT ![w] = Append(@, "return")]
    /\ pc' = [pc EXCEPT ![w] = "done"]
    /\ UNCHANGED <<variant, req, name, toDoItems, sink, issued, started>>

(* return func.HttpResponse(f"Hello, {name}. ... saved to SQL.") *)
ReturnSavedA(w) ==
    /\ pc[w] = "return" /\ variant[w] = "A"
    /\ resp' = [resp EXCEPT ![w] = HttpResponse(HelloSavedBody(name[w]), 200)]
    /\ okA' = okA + 1
    /\ steps' = [steps EXCEPT ![w] = Append(@, "return")]
    /\ pc' = [pc EXCEPT ![w] = "done"]
    /\ UNCHANGED <<variant, req, name, toDoItems, sink, issued, started>>

(* else: return func.HttpResponse("Please pass a name ...", status_code=400) *)
ReturnPleasePassA(w) ==
    /\ pc[w] = "branch" /\ variant[w] = "A"
    /\ ~Truthy(name[w])
    /\ resp' = [resp EXCEPT ![w] = HttpResponse(PleasePassBody, 400)]
    /\ steps' = [steps EXCEPT ![w] = Append(@, "return")]
    /\ pc' = [pc EXCEPT ![w] = "done"]
    /\ UNCHANGED <<variant, req, name, toDoItems, sink, issued, started, okA>>

(* if name: return func.HttpResponse(f"Hello, {name}. ... successfully.") *)
ReturnHelloB(w) ==
    /\ pc[w] = "branch" /\ variant[w] = "B"
    /\ Truthy(name[w])
    /\ resp' = [resp EXCEPT ![w] = HttpResponse(HelloBody(name[w]), 200)]
    /\ steps' = [steps EXCEPT ![w] = Append(@, "return")]
    /\ pc' = [pc EXCEPT ![w] = "done"]
    /\ UNCHANGED <<variant, req, name, toDoItems, sink, issued, started, okA>>

(* ReturnPromptB with the status_code=400 of function_app.py. *)
ReturnPromptB_400(w) ==
    /\ pc[w] = "branch" /\ variant[w] = "B"
    /\ ~Truthy(name[w])
    /\ resp' = [resp EXCEPT ![w] = HttpResponse(PromptBody, 400)]
    /\ steps' = [steps EXCEPT ![w] = Append(@, "return")]
    /\ pc' = [pc EXCEPT ![w] = "done"]
    /\ UNCHANGED <<variant, req, name, toDoItems, sink, issued, started, okA>>

(* else: return func.HttpResponse("This HTTP triggered ...", status_code=200) *)
ReturnPromptB(w) ==
    /\ pc[w] = "branch" /\ variant[w] = "B"
    /\ ~Truthy(name[w])
    /\ resp' = [resp EXCEPT ![w] = HttpResponse(PromptBody, 200)]
    /\ steps' = [steps EXCEPT ![w] = Append(@, "return")]
    /\ pc' = [pc EXCEPT ![w] = "done"]
    /\ UNCHANGED <<variant, req, name, toDoItems, sink, issued, started, okA>>

(* The invocation is over (returned or raised); the host frees the worker  *)
(* and the request is discarded.                                           *)
Finish(w) ==
    /\ pc[w] \in {"done", "error"}
    /\ pc' = [pc EXCEPT ![w] = "idle"]
    /\ req' = [req EXCEPT ![w] = NoRequest]
    /\ name' = [name EXCEPT ![w] = None]
    /\ resp' = [resp EXCEPT ![w] = NoResponse]
    /\ toDoItems' = [toDoItems EXCEPT ![w] = <<>>]
    /\ steps' = [steps EXCEPT ![w] = <<>>]
    /\ UNCHANGED <<variant, sink, issued, started, okA>>

Next ==
    \E w \in Workers :
        \/ \E v \in Variants, r \in Requests : Receive(w, v, r)
        \/ LogA(w)
        \/ LogB(w)
        \/ GetParamA(w)
        \/ GetParamB(w)
        \/ ParseBodyA(w)
        \/ ParseBodyB(w)
        \/ SetRecordA(w)
        \/ ReturnSavedA(w)
        \/ ReturnPleasePassA(w)
        \/ ReturnHelloB(w)
        \/ ReturnPromptB(w)
        \/ Finish(w)

Spec == Init /\ [][Next]_vars

-----------------------------------------------------------------------------
(* Vocabulary of the properties below.                                     *)

Running(w) == pc[w] # "idle"

Returned(w) == pc[w] = "done"

Raised(w) == pc[w] = "error"

Resolved(w) == pc[w] \in {"branch", "return", "done"}

(* An empty value, in the sense of "absent or empty". *)
IsEmpty(v) == v \in {None, PyStr(""), PyInt(0)}

QueryName(r) == IF "name" \in DOMAIN r.params THEN r.params["name"] ELSE ""

(* The name field of the body: the value of `name` when the body parses to *)
(* a JSON object that has it, None otherwise.                              *)
BodyName(r) ==
    LET j == GetJson(r)
    IN  IF j.type = "dict" /\ "name" \in DOMAIN j.items THEN j.items["name"] ELSE None

(* Name resolution as the specification words it: the query parameter      *)
(* when non-empty, else the body's name field when non-empty, else none.   *)
ResolvedName(r) ==
    IF QueryName(r) # "" THEN PyStr(QueryName(r))
    ELSE IF ~IsEmpty(BodyName(r)) THEN BodyName(r)
    ELSE None

(* The response and the row each variant owes a request whose resolved     *)
(* name is n (None: no name).                                              *)
OwedResponse(v, n) ==
    IF v = "A"
    THEN IF n # None
         THEN [status |-> 200,
               body |-> "Hello, " \o Format(n)
                   \o ". This HTTP triggered function executed successfully and was saved to SQL."]
         ELSE [status |-> 400,
               body |-> "Please pass a name in the query string or in the request body."]
    ELSE IF n # None
         THEN [status |-> 200,
               body |-> "Hello, " \o Format(n)
                   \o ". This HTTP triggered function executed successfully."]
         ELSE [status |-> 200,
               body |-> "This HTTP triggered function executed successfully. Pass a name in the query string or in the request body for a personalized response."]

IsPrefix(s, t) == Len(s) <= Len(t) /\ SubSeq(t, 1, Len(s)) = s

Count(s, e) == Cardinality({i \in 1..Len(s) : s[i] = e})

-----------------------------------------------------------------------------
(* C1: in variant A, every invocation that resolved a non-empty name X     *)
(* returns 200 with the body "Hello, X. This HTTP triggered function       *)
(* executed successfully and was saved to SQL." and has handed the sink    *)
(* one row with title X, completed false, url "" and a generated Id; a     *)
(* non-empty query parameter name=X is such a case.                        *)
C1_SavedGreeting ==
    \A w \in Workers :
        (variant[w] = "A" /\ Returned(w)) =>
            /\ ~IsEmpty(name[w]) =>
                /\ resp[w].status = 200
                /\ resp[w].body = "Hello, " \o Format(name[w])
                       \o ". This HTTP triggered function executed successfully and was saved to SQL."
                /\ Len(toDoItems[w]) = 1
                /\ toDoItems[w][1].title = name[w]
                /\ toDoItems[w][1].completed = FALSE
                /\ toDoItems[w][1].url = ""
                /\ \E u \in Uuids : toDoItems[w][1].Id = UuidStr(u)
                /\ \E i \in 1..Len(sink) : sink[i] = toDoItems[w][1]
            /\ QueryName(req[w]) # "" =>
                /\ name[w] = PyStr(QueryName(req[w]))
                /\ resp[w].status = 200

C1_Witness ==
    \E w \in Workers :
        /\ variant[w] = "A" /\ Returned(w)
        /\ req[w].params = [name |-> "Ada"]
        /\ resp[w].body = "Hello, Ada. This HTTP triggered function executed successfully and was saved to SQL."
        /\ Len(sink) >= 1
        /\ toDoItems[w][1].title = PyStr("Ada")

(* C2: in both variants the name an invocation works with is the query     *)
(* parameter when non-empty, else the body's name field when the body      *)
(* parses and the field is non-empty, else none; the response and the row  *)
(* depend on the request through that name only, and a non-empty query     *)
(* name keeps the body from being read at all.                             *)
C2_NameResolution ==
    \A w \in Workers :
        /\ Resolved(w) =>
            /\ IsEmpty(name[w]) <=> (ResolvedName(req[w]) = None)
            /\ ~IsEmpty(name[w]) => name[w] = ResolvedName(req[w])
        /\ Raised(w) => IsEmpty(name[w])
        /\ Returned(w) =>
            /\ resp[w] = OwedResponse(variant[w], ResolvedName(req[w]))
            /\ toDoItems[w] # <<>> => toDoItems[w][1].title = ResolvedName(req[w])
        /\ (Running(w) /\ QueryName(req[w]) # "") =>
            /\ Count(steps[w], "json") = 0
            /\ ~Raised(w)

C2_Witness ==
    \E w1, w2 \in Workers :
        /\ w1 # w2 /\ variant[w1] = variant[w2]
        /\ Returned(w1) /\ Returned(w2)
        /\ req[w1] = [params |-> [name |-> ""], body |-> "{\"name\": \"Ada\"}"]
        /\ req[w2] = [params |-> [name |-> "Ada"], body |-> "not-json"]
        /\ resp[w1] = resp[w2]
        /\ name[w1] = PyStr("Ada")

(* C3: in variant A a row is handed over in an invocation exactly when     *)
(* that invocation resolved a non-empty name; a 400 (with the "Please      *)
(* pass a name..." body) comes with no row and a 200 with exactly one, so  *)
(* between invocations the sink holds as many rows as 200s were returned.  *)
C3_RowIffName ==
    /\ \A w \in Workers :
        (variant[w] = "A" /\ Running(w)) =>
            /\ Len(toDoItems[w]) <= 1
            /\ toDoItems[w] # <<>> => (Resolved(w) /\ ~IsEmpty(name[w]))
            /\ Returned(w) =>
                /\ resp[w].status \in {200, 400}
                /\ (toDoItems[w] # <<>>) <=> ~IsEmpty(name[w])
                /\ resp[w].status = 400 =>
                    /\ toDoItems[w] = <<>>
                    /\ resp[w].body = "Please pass a name in the query string or in the request body."
                /\ resp[w].status = 200 => Len(toDoItems[w]) = 1
            /\ Raised(w) => toDoItems[w] = <<>>
    /\ (\A w \in Workers : ~(variant[w] = "A" /\ pc[w] = "return")) => Len(sink) = okA

C3_Witness ==
    \E w1, w2 \in Workers :
        /\ variant[w1] = "A" /\ variant[w2] = "A"
        /\ Returned(w1) /\ Returned(w2)
        /\ resp[w1].status = 400 /\ resp[w2].status = 200
        /\ Len(sink) = 1 /\ okA = 1

UnparseableBodies == {"", "not-json"}

(* C4: with no query name and a body that is not JSON the parse failure    *)
(* is absorbed: variant A returns 400 with the "Please pass a name..."     *)
(* body and writes no row, variant B returns 200 with the generic prompt.  *)
C4_ParseFailureAbsorbed ==
    \A w \in Workers :
        (Running(w) /\ req[w].params = <<>> /\ req[w].body \in UnparseableBodies) =>
            /\ ~Raised(w)
            /\ toDoItems[w] = <<>>
            /\ Returned(w) =>
                resp[w] = IF variant[w] = "A"
                          THEN [status |-> 400,
                                body |-> "Please pass a name in the query string or in the request body."]
                          ELSE [status |-> 200,
                                body |-> "This HTTP triggered function executed successfully. Pass a name in the query string or in the request body for a personalized response."]

C4_Witness ==
    \E w1, w2 \in Workers :
        /\ variant[w1] = "A" /\ variant[w2] = "B"
        /\ Returned(w1) /\ Returned(w2)
        /\ req[w1] = [params |-> <<>>, body |-> "not-json"]
        /\ req[w2] = [params |-> <<>>, body |-> "not-json"]
        /\ resp[w1].status = 400 /\ resp[w2].status = 200
        /\ Count(steps[w1], "json") = 1 /\ Count(steps[w2], "json") = 1

(* C5: variant B answers 200 whenever it answers: "Hello, {name}. This     *)
(* HTTP triggered function executed successfully." with a name, the        *)
(* generic prompt without one; it never answers 400 and never hands a row  *)
(* to the sink.                                                            *)
C5_VariantBAlways200 ==
    \A w \in Workers :
        (variant[w] = "B" /\ Running(w)) =>
            /\ toDoItems[w] = <<>>
            /\ resp[w].status # 400
            /\ Returned(w) =>
                /\ resp[w].status = 200
                /\ resp[w].body =
                       IF ~IsEmpty(name[w])
                       THEN "Hello, " \o Format(name[w])
                                \o ". This HTTP triggered function executed successfully."
                       ELSE "This HTTP triggered function executed successfully. Pass a name in the query string or in the request body for a personalized response."

C5_Witness ==
    \E w1, w2 \in Workers :
        /\ variant[w1] = "B" /\ variant[w2] = "B"
        /\ Returned(w1) /\ Returned(w2)
        /\ resp[w1].body = "Hello, Ada. This HTTP triggered function executed successfully."
        /\ resp[w2].status = 200 /\ IsEmpty(name[w2])
        /\ sink = <<>>

(* Bodies that offer no usable name: absent, not JSON, or JSON without a   *)
(* non-empty name field.                                                   *)
NoUsableName(b) ==
    b \in {"", "not-json", "{}", "{\"name\": \"\"}", "{\"name\": 0}",
           "{\"name\": null}", "[\"Ada\"]", "\"Ada\"", "null"}

(* C6: in either variant, a request with query name="" and no usable body  *)
(* name ends exactly as the same request without the query parameter:      *)
(* same status, same body, same (absent) row.                              *)
C6_EmptyQueryAsAbsent ==
    \A w1, w2 \in Workers :
        ( /\ variant[w1] = variant[w2]
          /\ pc[w1] \in {"done", "error"} /\ pc[w2] \in {"done", "error"}
          /\ req[w1].body = req[w2].body /\ NoUsableName(req[w1].body)
          /\ req[w1].params = [name |-> ""] /\ req[w2].params = <<>> ) =>
            /\ pc[w1] = pc[w2]
            /\ resp[w1] = resp[w2]
            /\ toDoItems[w1] = <<>> /\ toDoItems[w2] = <<>>

C6_Witness ==
    \E w1, w2 \in Workers :
        /\ variant[w1] = "A" /\ variant[w2] = "A"
        /\ Returned(w1) /\ Returned(w2)
        /\ req[w1] = [params |-> [name |-> ""], body |-> "{}"]
        /\ req[w2] = [params |-> <<>>, body |-> "{}"]
        /\ resp[w1].status = 400 /\ resp[w2].status = 400

DistinctIds == \A i, j \in 1..Len(sink) : i # j => sink[i].Id # sink[j].Id

(* C7: variant A does not deduplicate: every invocation with a name adds   *)
(* one more row with that title, whatever the sink already holds, and its  *)
(* Id differs from every Id handed over before (uuid4 taken as fresh).     *)
C7_NoDeduplication ==
    [][ \A w \in Workers :
          (variant[w] = "A" /\ pc[w] = "branch" /\ ~IsEmpty(name[w]) /\ pc'[w] # "branch") =>
              /\ Len(sink') = Len(sink) + 1
              /\ SubSeq(sink', 1, Len(sink)) = sink
              /\ sink'[Len(sink')].title = name[w]
              /\ \A i \in 1..Len(sink) : sink[i].Id # sink'[Len(sink')].Id ]_vars

C7_Witness ==
    \E w1, w2 \in Workers :
        /\ w1 # w2 /\ variant[w1] = "A" /\ variant[w2] = "A"
        /\ Returned(w1) /\ Returned(w2)
        /\ req[w1] = req[w2]
        /\ Len(sink) = 2
        /\ sink[1].title = sink[2].title
        /\ sink[1].Id # sink[2].Id

(* The statement orders an invocation of each variant can run through. *)
Orders(v) ==
    IF v = "A"
    THEN {<<"log", "params", "set", "return">>,
          <<"log", "params", "json", "set", "return">>,
          <<"log", "params", "return">>,
          <<"log", "params", "json", "return">>}
    ELSE {<<"log", "params", "return">>,
          <<"log", "params", "json", "return">>}

(* C8: every invocation runs log, resolve name, (variant A with a name)    *)
(* hand over the row, return: the log line is written exactly once, first, *)
(* whatever the outcome; in variant A the row is handed over before the    *)
(* 200 is returned and nothing happens after a response.                   *)
C8_StepOrder ==
    \A w \in Workers :
        Running(w) =>
            /\ \E o \in Orders(variant[w]) : IsPrefix(steps[w], o)
            /\ pc[w] # "log" => (Head(steps[w] \o <<"none">>) = "log" /\ Count(steps[w], "log") = 1)
            /\ Returned(w) =>
                /\ steps[w] \in Orders(variant[w])
                /\ (resp[w].status = 200 /\ variant[w] = "A") <=> Count(steps[w], "set") = 1
            /\ Count(steps[w], "return") = 1 <=> resp[w] # NoResponse
            /\ (Count(steps[w], "return") = 1) => Returned(w)
            /\ toDoItems[w] # <<>> <=> Count(steps[w], "set") = 1

C8_Witness ==
    \E w1, w2 \in Workers :
        /\ variant[w1] = "A" /\ variant[w2] = "B"
        /\ steps[w1] = <<"log", "params", "json", "set", "return">>
        /\ steps[w2] = <<"log", "params", "json", "return">>

(* C9: with an empty or absent query name, whatever the body is, each      *)
(* variant ends with a response instead of an unhandled error.             *)
C9_NoUnhandledError ==
    \A w \in Workers :
        (Running(w) /\ QueryName(req[w]) = "") => ~Raised(w)

(* C10: on one and the same request variant A resolves a name exactly      *)
(* when variant B does, and then the same name; A returns 200 exactly      *)
(* when B returns the personalised "Hello, {name}" body.                   *)
C10_VariantsResolveAlike ==
    \A w1, w2 \in Workers :
        ( /\ variant[w1] = "A" /\ variant[w2] = "B"
          /\ req[w1] = req[w2]
          /\ pc[w1] \in {"branch", "return", "done", "error"}
          /\ pc[w2] \in {"branch", "done", "error"} ) =>
            /\ Raised(w1) <=> Raised(w2)
            /\ IsEmpty(name[w1]) <=> IsEmpty(name[w2])
            /\ ~IsEmpty(name[w1]) => name[w1] = name[w2]
            /\ (Returned(w1) /\ Returned(w2)) =>
                (resp[w1].status = 200 <=>
                    resp[w2].body = "Hello, " \o Format(name[w2])
                        \o ". This HTTP triggered function executed successfully.")

C10_Witness ==
    \E w1, w2 \in Workers :
        /\ variant[w1] = "A" /\ variant[w2] = "B"
        /\ req[w1] = [params |-> [name |-> ""], body |-> "not-json"]
        /\ req[w2] = req[w1]
        /\ Returned(w1) /\ Returned(w2)
        /\ name[w1] = None /\ name[w2] = PyStr("")

====
